---- MODULE Spec2Model ----
(***************************************************************************)
(* A model of runtime/manager.go: the Manager that snapshots the file tree *)
(* of a program (storeState), reports the changes since the snapshot       *)
(* (GetChanges, readAll), detects the runtime (GetRuntime) and diffs the   *)
(* dependency manifest against the stored program info (GetDepChanges).    *)
(*                                                                         *)
(* The file system is a small tree below the root directory.  A path is    *)
(* the tuple of its names below the root; <<>> is the root itself.  Every  *)
(* operation of the Manager is one atomic action: the program is           *)
(* single-threaded and each call runs to completion.                       *)
(***************************************************************************)
EXTENDS Naturals, Sequences, FiniteSets

VARIABLES
    rootName,      \* base name of Manager.rootDir (fixed at NewManager)
    dirs,          \* the directories lib and .venv that exist below the root
    files,         \* path -> bytes, for every regular file below the root
    unreadable,    \* paths whose open / readdir fails (permission denied)
    stateFile,     \* .deta/state      : [exists, valid, entries]
    progInfoFile,  \* .deta/progInfo   : [exists, valid, info]
    cwd,           \* the process's working directory: "root" or "other"
    otherFiles,    \* name -> bytes, the manifest files of the other directory
    res,           \* what the last Manager call returned (NoCall after an edit)
    prev,          \* after two GetChanges in a row: what the first returned
    fresh          \* storeState succeeded and no file was edited since

vars == <<rootName, dirs, files, unreadable, stateFile, progInfoFile, cwd,
          otherFiles, res, prev, fresh>>

----------------------------------------------------------------------------
(* Bounds of the model *)

\* longest requirements.txt, in characters
MaxLen == 3
\* ordinary files hold 1..MaxBytes bytes
MaxBytes == 2

----------------------------------------------------------------------------
(* Package-level constants and tables, manager.go 16-36 *)

Python == "python"
Node == "node"

\* entryPoints: entrypoint file name -> runtime
entryPoints == [n \in {"main.py", "index.js"} |->
                   IF n = "main.py" THEN Python ELSE Node]

\* depFiles: runtime -> manifest file name; a Go map yields "" for a missing key
depFiles(runtime) ==
    IF runtime = Python THEN "requirements.txt"
    ELSE IF runtime = Node THEN "package.json"
    ELSE ""

detaDir == ".deta"
progInfoFileName == "progInfo"
stateFileName == "state"

----------------------------------------------------------------------------
(* The tree below the root *)

DetaPath == <<detaDir>>
ProgInfoPath == <<detaDir, progInfoFileName>>
StatePath == <<detaDir, stateFileName>>

\* Every path of the model, in the order filepath.Walk visits them: a
\* directory before its entries, the entries of a directory sorted by name.
WalkOrder ==
    << DetaPath, ProgInfoPath, StatePath,
       <<".env">>,
       <<".venv">>, <<".venv", "main.py">>,
       <<"index.js">>,
       <<"lib">>, <<"lib", "index.js">>,
       <<"main.py">>,
       <<"package.json">>,
       <<"requirements.txt">> >>

OptionalDirs == { <<".venv">>, <<"lib">> }
DirPaths == OptionalDirs \cup {DetaPath}
\* the regular files an edit can create
SourceFiles == { <<".env">>, <<".venv", "main.py">>, <<"index.js">>,
                 <<"lib", "index.js">>, <<"main.py">> }
ManifestFiles == { <<"package.json">>, <<"requirements.txt">> }
TreeFiles == SourceFiles \cup ManifestFiles

Root == <<>>
Parent(p) == SubSeq(p, 1, Len(p) - 1)
\* filepath.Split(path): the last element of the path; the root's is rootName
Base(p) == IF p = Root THEN rootName ELSE p[Len(p)]

IsDir(p) == p = Root \/ p \in DirPaths

Exists(p) ==
    IF p = Root \/ p = DetaPath THEN TRUE
    ELSE IF p \in OptionalDirs THEN p \in dirs
    ELSE IF p = StatePath THEN stateFile.exists
    ELSE IF p = ProgInfoPath THEN progInfoFile.exists
    ELSE p \in DOMAIN files

\* the names of the model that begin with "."
DotNames == {".", ".deta", ".env", ".venv", ".proj"}
\* strings.HasPrefix(filename, ".")
HasDotPrefix(name) == name \in DotNames

\* isHidden, were it to report files only
isHiddenFilesOnly(p) == HasDotPrefix(Base(p)) /\ ~IsDir(p)
\* isHidden on a non-Windows build: only the base name is looked at
isHidden(p) == HasDotPrefix(Base(p))

----------------------------------------------------------------------------
(* Bytes, errors, checksums *)

Chars == {"a", "\n"}
RECURSIVE SeqsUpTo(_, _)
SeqsUpTo(S, n) ==
    IF n = 0 THEN { <<>> }
    ELSE LET shorter == SeqsUpTo(S, n - 1)
         IN  shorter \cup { Append(s, c) : s \in { t \in shorter : Len(t) = n - 1 }, c \in S }

\* the bytes of an ordinary file: "x", "xx", ...
SourceBytes == { [i \in 1..n |-> "x"] : n \in 1..MaxBytes }

NoErr == "nil"
EACCES == "permission denied"
ENOENT == "no such file or directory"

\* the bytes of a file of the tree, or of the state directory
Ok(v) == [err |-> NoErr, val |-> v]
Fail(e) == [err |-> e, val |-> <<>>]

\* readFile(path) for a path below the root (os.Open, ioutil.ReadAll)
readFile(p) ==
    IF ~Exists(p) THEN Fail(ENOENT)
    ELSE IF p \in unreadable THEN Fail(EACCES)
    ELSE Ok(files[p])

\* fmt.Sprintf("%x", sha256.Sum256(contents)): never the empty string, and
\* different for different bytes
Sha256Hex(contents) == <<"sha256", contents>>
\* the zero value a Go map[string]string yields for a missing key: ""
NoSum == <<>>

calcChecksum(p) ==
    LET r == readFile(p)
    IN  IF r.err # NoErr THEN Fail(r.err) ELSE Ok(Sha256Hex(r.val))

----------------------------------------------------------------------------
(* Maps and the persisted bytes *)

EmptyMap == [x \in {} |-> <<>>]
Put(f, k, v) == [x \in DOMAIN f \cup {k} |-> IF x = k THEN v ELSE f[x]]
\* m[k] of a Go map[string]string
Lookup(m, k) == IF k \in DOMAIN m THEN m[k] ELSE NoSum

KeysInOrder(m) == SelectSeq(WalkOrder, LAMBDA p : p \in DOMAIN m)
\* json.Marshal(sm): one member per key, the keys sorted
Marshal(sm) ==
    LET K == KeysInOrder(sm)
    IN  [exists |-> TRUE, valid |-> TRUE,
         entries |-> [i \in 1..Len(K) |-> <<K[i], sm[K[i]]>>]]

CorruptState == "invalid state file"
\* stateMapFromBytes(contents): the mapping the bytes encode, or an error
stateMapFromBytes(bytes) ==
    IF ~bytes.valid THEN Fail(CorruptState)
    ELSE Ok([p \in { bytes.entries[i][1] : i \in 1..Len(bytes.entries) } |->
               LET i == CHOOSE j \in 1..Len(bytes.entries) : bytes.entries[j][1] = p
               IN  bytes.entries[i][2]])

NoFile == [exists |-> FALSE, valid |-> TRUE, entries |-> <<>>]

\* getStoredState: readFile(m.statePath), then stateMapFromBytes
getStoredState ==
    IF ~stateFile.exists THEN Fail(ENOENT)
    ELSE stateMapFromBytes(stateFile)

----------------------------------------------------------------------------
(* filepath.Walk and the four walk functions *)

SkipDir == "SkipDir"
Conflict == "Conflicting entrypoint files found"
Ret(acc, ret) == [acc |-> acc, ret |-> ret]

\* the walk function of storeState, manager.go 149-172: the err it is handed
\* is overwritten by isHidden's before it is ever read
storeStateFn(p, walkErr, sm) ==
    LET hidden == isHidden(p)
    IN  IF IsDir(p) THEN Ret(sm, IF hidden THEN SkipDir ELSE NoErr)
        ELSE IF hidden THEN Ret(sm, NoErr)
        ELSE LET h == calcChecksum(p)
             IN  IF h.err # NoErr THEN Ret(sm, h.err)
                 ELSE Ret(Put(sm, p, h.val), NoErr)

\* readAll's walk function, were it to leave hidden files in
readAllFnKeepsHidden(p, walkErr, changes) ==
    IF walkErr # NoErr THEN Ret(changes, walkErr)
    ELSE IF IsDir(p) THEN Ret(changes, IF isHidden(p) THEN SkipDir ELSE NoErr)
    ELSE LET r == readFile(p)
         IN  IF r.err # NoErr THEN Ret(changes, r.err)
             ELSE Ret(Put(changes, p, r.val), NoErr)

\* the walk function of readAll, manager.go 208-238
readAllFn(p, walkErr, changes) ==
    IF walkErr # NoErr THEN Ret(changes, walkErr)
    ELSE LET hidden == isHidden(p)
         IN  IF IsDir(p) THEN Ret(changes, IF hidden THEN SkipDir ELSE NoErr)
             ELSE IF hidden THEN Ret(changes, NoErr)
             ELSE LET r == readFile(p)
                  IN  IF r.err # NoErr THEN Ret(changes, r.err)
                      ELSE Ret(Put(changes, p, r.val), NoErr)

\* the walk function of GetChanges, manager.go 266-303;
\* acc = [Changes, deletions, storedState]
GetChangesFn(p, walkErr, acc) ==
    IF walkErr # NoErr THEN Ret(acc, walkErr)
    ELSE LET hidden == isHidden(p)
         IN  IF IsDir(p) THEN Ret(acc, IF hidden THEN SkipDir ELSE NoErr)
             ELSE IF hidden THEN Ret(acc, NoErr)
             ELSE LET seen == [acc EXCEPT !.deletions = @ \ {p}]
                      h == calcChecksum(p)
                  IN  IF h.err # NoErr THEN Ret(seen, h.err)
                      ELSE IF Lookup(acc.storedState, p) # h.val
                      THEN LET r == readFile(p)
                           IN  IF r.err # NoErr THEN Ret(seen, r.err)
                               ELSE Ret([seen EXCEPT !.Changes = Put(@, p, r.val)], NoErr)
                      ELSE Ret(seen, NoErr)

\* the walk function of GetRuntime, manager.go 86-100: no hidden check, and
\* the err it is handed is never read; acc = [runtime, found]
GetRuntimeFn(p, walkErr, acc) ==
    IF IsDir(p) THEN Ret(acc, NoErr)
    ELSE IF Base(p) \in DOMAIN entryPoints
    THEN IF ~acc.found
         THEN Ret([runtime |-> entryPoints[Base(p)], found |-> TRUE], NoErr)
         ELSE Ret(acc, Conflict)
    ELSE Ret(acc, NoErr)

WalkFn(kind, p, walkErr, acc) ==
    CASE kind = "storeState" -> storeStateFn(p, walkErr, acc)
      [] kind = "readAll"    -> readAllFn(p, walkErr, acc)
      [] kind = "GetChanges" -> GetChangesFn(p, walkErr, acc)
      [] kind = "GetRuntime" -> GetRuntimeFn(p, walkErr, acc)

\* readDirNames(path) of a directory fails when the directory is unreadable
ReadDirErr(p) == IF IsDir(p) /\ p \in unreadable THEN EACCES ELSE NoErr

\* The entries WalkOrder[i..] are still to visit; skip holds the directories
\* that are not descended into.  The walk function is called once per entry,
\* for a directory with the error of reading it; an error it returns, other
\* than SkipDir for a directory, ends the walk.
RECURSIVE WalkFrom(_, _, _, _)
WalkFrom(kind, i, acc, skip) ==
    IF i > Len(WalkOrder) THEN [acc |-> acc, err |-> NoErr]
    ELSE LET p == WalkOrder[i]
         IN  IF ~Exists(p) \/ Parent(p) \in skip
             THEN WalkFrom(kind, i + 1, acc, skip)
             ELSE LET r == WalkFn(kind, p, ReadDirErr(p), acc)
                  IN  IF IsDir(p) /\ r.ret = SkipDir
                      THEN WalkFrom(kind, i + 1, r.acc, skip \cup {p})
                      ELSE IF r.ret # NoErr
                      THEN [acc |-> r.acc, err |-> r.ret]
                      ELSE IF ReadDirErr(p) # NoErr
                      THEN WalkFrom(kind, i + 1, r.acc, skip \cup {p})
                      ELSE WalkFrom(kind, i + 1, r.acc, skip)

\* filepath.Walk(m.rootDir, fn): the root first; SkipDir for the root ends
\* the walk without an error
Walk(kind, acc) ==
    LET r == WalkFn(kind, Root, NoErr, acc)
    IN  IF r.ret = SkipDir THEN [acc |-> r.acc, err |-> NoErr]
        ELSE IF r.ret # NoErr THEN [acc |-> r.acc, err |-> r.ret]
        ELSE WalkFrom(kind, 1, r.acc, {})

----------------------------------------------------------------------------
(* What a call returned *)

\* One record shape for every call: err is the returned error; nilval says
\* that the returned pointer is nil; Changes/Deletions are the StateChanges,
\* Added/Removed the DepChanges, runtime the string of GetRuntime.  Deletions
\* and Removed are filled by ranging over a Go map, in no particular order,
\* and are kept as sets.  walkErr is the error filepath.Walk returned inside
\* the call, and firstRun says that GetChanges took the readAll branch.
NoCall ==
    [op |-> "none", err |-> NoErr, nilval |-> TRUE,
     Changes |-> EmptyMap, Deletions |-> {},
     Added |-> <<>>, Removed |-> {}, runtime |-> "",
     walkErr |-> NoErr, firstRun |-> FALSE]

Returned(op) == [NoCall EXCEPT !.op = op]
ReturnedErr(op, e) == [NoCall EXCEPT !.op = op, !.err = e]

----------------------------------------------------------------------------
(* storeState, manager.go 147-187 *)

storeStateWalk == Walk("storeState", EmptyMap)

storeState ==
    LET w == storeStateWalk
    IN  /\ IF w.err # NoErr
           THEN /\ res' = [ReturnedErr("storeState", w.err) EXCEPT !.walkErr = w.err]
                /\ UNCHANGED <<stateFile, fresh>>
           ELSE /\ stateFile' = Marshal(w.acc)
                /\ res' = Returned("storeState")
                /\ fresh' = TRUE
        /\ prev' = NoCall
        /\ UNCHANGED <<rootName, dirs, files, unreadable, progInfoFile, cwd, otherFiles>>

----------------------------------------------------------------------------
(* readAll, manager.go 203-243, and GetChanges, manager.go 246-312 *)

readAll ==
    LET w == Walk("readAll", EmptyMap)
    IN  IF w.err # NoErr
        THEN [ReturnedErr("GetChanges", w.err) EXCEPT !.walkErr = w.err, !.firstRun = TRUE]
        ELSE [Returned("GetChanges") EXCEPT
                !.nilval = FALSE, !.Changes = w.acc, !.firstRun = TRUE]

\* the comparison branch: the error of the walk is assigned to err at line
\* 266 and never read; sc is returned with a nil error whatever it was
CompareWithStored(storedState) ==
    LET w == Walk("GetChanges",
                  [Changes |-> EmptyMap, deletions |-> DOMAIN storedState,
                   storedState |-> storedState])
    IN  [Returned("GetChanges") EXCEPT
            !.nilval = FALSE, !.Changes = w.acc.Changes,
            !.Deletions = w.acc.deletions, !.walkErr = w.err]

GetChangesResult ==
    LET ss == getStoredState
    IN  IF ss.err # NoErr
        THEN IF ss.err = ENOENT THEN readAll
             ELSE ReturnedErr("GetChanges", ss.err)
        ELSE CompareWithStored(ss.val)

\* GetChanges, were it to store the snapshot of the tree it has just walked
GetChangesStoring ==
    /\ res' = GetChangesResult
    /\ prev' = IF res.op = "GetChanges" THEN res ELSE NoCall
    /\ stateFile' = IF storeStateWalk.err = NoErr
                    THEN Marshal(storeStateWalk.acc) ELSE stateFile
    /\ UNCHANGED <<rootName, dirs, files, unreadable, progInfoFile,
                   cwd, otherFiles, fresh>>

GetChanges ==
    /\ res' = GetChangesResult
    /\ prev' = IF res.op = "GetChanges" THEN res ELSE NoCall
    /\ UNCHANGED <<rootName, dirs, files, unreadable, stateFile, progInfoFile,
                   cwd, otherFiles, fresh>>

----------------------------------------------------------------------------
(* StoreProgInfo, manager.go 62-68, and GetProgInfo, manager.go 71-80 *)

NoProgInfo == [exists |-> FALSE, valid |-> TRUE, info |-> [Runtime |-> "", Deps |-> <<>>]]
CorruptInfo == "invalid program info file"
\* json.Marshal(p) of a ProgInfo
MarshalProgInfo(p) == [exists |-> TRUE, valid |-> TRUE, info |-> p]
\* progInfoFromBytes(contents): the ProgInfo the bytes encode, or an error
progInfoFromBytes(bytes) ==
    IF ~bytes.valid THEN Fail(CorruptInfo) ELSE Ok(bytes.info)

\* ioutil.WriteFile fails on a file the process may not open
StoreProgInfo(p) ==
    /\ progInfoFile' = IF ProgInfoPath \in unreadable THEN progInfoFile
                       ELSE MarshalProgInfo(p)
    /\ res' = IF ProgInfoPath \in unreadable
              THEN ReturnedErr("StoreProgInfo", EACCES)
              ELSE Returned("StoreProgInfo")
    /\ prev' = NoCall
    /\ UNCHANGED <<rootName, dirs, files, unreadable, stateFile, cwd, otherFiles, fresh>>

\* [err, nilval, val]: a missing file is (nil, nil)
GetProgInfo ==
    IF ~progInfoFile.exists THEN [err |-> NoErr, nilval |-> TRUE, val |-> NoProgInfo.info]
    ELSE IF ProgInfoPath \in unreadable
    THEN [err |-> EACCES, nilval |-> TRUE, val |-> NoProgInfo.info]
    ELSE LET r == progInfoFromBytes(progInfoFile)
         IN  IF r.err # NoErr
             THEN [err |-> r.err, nilval |-> TRUE, val |-> NoProgInfo.info]
             ELSE [err |-> NoErr, nilval |-> FALSE, val |-> r.val]

----------------------------------------------------------------------------
(* GetRuntime, manager.go 83-108 *)

NoRuntime == "No supported runtime found"

\* [err, runtime]
GetRuntimeResult ==
    LET w == Walk("GetRuntime", [runtime |-> "", found |-> FALSE])
    IN  IF w.err # NoErr THEN [err |-> w.err, runtime |-> ""]
        ELSE IF ~w.acc.found THEN [err |-> NoRuntime, runtime |-> ""]
        ELSE [err |-> NoErr, runtime |-> w.acc.runtime]

GetRuntime ==
    /\ res' = [ReturnedErr("GetRuntime", GetRuntimeResult.err) EXCEPT
                  !.runtime = GetRuntimeResult.runtime]
    /\ prev' = NoCall
    /\ UNCHANGED <<rootName, dirs, files, unreadable, stateFile, progInfoFile,
                   cwd, otherFiles, fresh>>

----------------------------------------------------------------------------
(* readDeps, manager.go 315-348 *)

\* the bytes of a package.json, as the documents the model writes
PkgNotJSON == <<"not json">>
PkgNoDeps == <<"{", "}">>
PkgDepsTwo == <<"{", "dependencies", ":", "{", "flask", ":", "1.0", ",",
                "requests", ":", "2.0", "}", "}">>
PkgDocs == {PkgNotJSON, PkgNoDeps, PkgDepsTwo}

BadJSON == "invalid character"
BadFormat == "'package.json' is of unexpected format"
Unsupported == "unsupported runtime"

\* fmt.Sprintf("%s@%s", k, v)
NodeId(k, v) == <<k, "@", v>>
FlaskId == NodeId("flask", "1.0")
RequestsId == NodeId("requests", "2.0")

\* json.Unmarshal(contents, &pkgJSON) into a map[string]interface{}: a JSON
\* object decodes to a map[string]interface{}, whatever the types of its
\* members; depsType is reflect.TypeOf(deps).String(), and deps the
\* members of the "dependencies" object
Unmarshal(contents) ==
    CASE contents = PkgNoDeps ->
           Ok([hasDeps |-> FALSE, depsType |-> "", deps |-> <<>>])
      [] contents = PkgDepsTwo ->
           Ok([hasDeps |-> TRUE, depsType |-> "map[string]interface {}",
               deps |-> << <<"flask", "1.0">>, <<"requests", "2.0">> >>])
      [] OTHER -> Fail(BadJSON)

\* strings.Split(s, "\n")
RECURSIVE Split(_)
Split(s) ==
    IF \A i \in 1..Len(s) : s[i] # "\n" THEN << s >>
    ELSE LET i == CHOOSE j \in 1..Len(s) :
                      s[j] = "\n" /\ \A k \in 1..(j - 1) : s[k] # "\n"
         IN  << SubSeq(s, 1, i - 1) >> \o Split(SubSeq(s, i + 1, Len(s)))

\* m.readFile(depFiles[runtime]): the name is not joined to rootDir, so the
\* file is the one of the working directory; os.Open("") is ENOENT
readManifest(name) ==
    IF name = "" THEN Fail(ENOENT)
    ELSE IF cwd = "root" THEN readFile(<<name>>)
    ELSE IF name \in DOMAIN otherFiles THEN Ok(otherFiles[name])
    ELSE Fail(ENOENT)

\* the Node branch, manager.go 326-344
readNodeDeps(contents) ==
    LET pkgJSON == Unmarshal(contents)
    IN  IF pkgJSON.err # NoErr THEN Fail(pkgJSON.err)
        ELSE IF ~pkgJSON.val.hasDeps THEN Ok(<<>>)
        ELSE IF pkgJSON.val.depsType # "map[string]string" THEN Fail(BadFormat)
        ELSE Ok([i \in 1..Len(pkgJSON.val.deps) |->
                   NodeId(pkgJSON.val.deps[i][1], pkgJSON.val.deps[i][2])])

\* readDeps without lines 318-320: a missing manifest is an error
readDepsMissingIsAnError(runtime) ==
    LET r == readManifest(depFiles(runtime))
    IN  IF r.err # NoErr THEN Fail(r.err)
        ELSE CASE runtime = Python -> Ok(Split(r.val))
               [] runtime = Node -> readNodeDeps(r.val)
               [] OTHER -> Fail(Unsupported)

readDeps(runtime) ==
    LET r == readManifest(depFiles(runtime))
    IN  IF r.err # NoErr
        THEN IF r.err = ENOENT THEN Ok(<<>>) ELSE Fail(r.err)
        ELSE CASE runtime = Python -> Ok(Split(r.val))
               [] runtime = Node -> readNodeDeps(r.val)
               [] OTHER -> Fail(Unsupported)

----------------------------------------------------------------------------
(* GetDepChanges, manager.go 351-408 *)

Range(s) == { s[i] : i \in 1..Len(s) }

\* the loop of lines 394-402 from deps[i] on; acc = [removedDeps, Added]
RECURSIVE DiffFrom(_, _, _)
DiffFrom(deps, i, acc) ==
    IF i > Len(deps) THEN acc
    ELSE IF deps[i] \in acc.removedDeps
    THEN DiffFrom(deps, i + 1, [acc EXCEPT !.removedDeps = @ \ {deps[i]}])
    ELSE DiffFrom(deps, i + 1, [acc EXCEPT !.Added = Append(@, deps[i])])

AllAdded(deps) ==
    IF deps.err # NoErr THEN ReturnedErr("GetDepChanges", deps.err)
    ELSE [Returned("GetDepChanges") EXCEPT !.nilval = FALSE, !.Added = deps.val]

GetDepChangesResult ==
    LET progInfo == GetProgInfo
    IN  IF progInfo.nilval
        THEN LET rt == GetRuntimeResult
             IN  IF rt.err # NoErr THEN ReturnedErr("GetDepChanges", rt.err)
                 ELSE AllAdded(readDeps(rt.runtime))
        ELSE IF Len(progInfo.val.Deps) = 0
        THEN LET runtime == IF progInfo.val.Runtime = ""
                            THEN GetRuntimeResult.runtime
                            ELSE progInfo.val.Runtime
             IN  AllAdded(readDeps(runtime))
        ELSE LET deps == readDeps(progInfo.val.Runtime)
             IN  IF deps.err # NoErr THEN ReturnedErr("GetDepChanges", deps.err)
                 ELSE LET dc == DiffFrom(deps.val, 1,
                                    [removedDeps |-> Range(progInfo.val.Deps),
                                     Added |-> <<>>])
                      IN  [Returned("GetDepChanges") EXCEPT
                              !.nilval = FALSE, !.Added = dc.Added,
                              !.Removed = dc.removedDeps]

GetDepChanges ==
    /\ res' = GetDepChangesResult
    /\ prev' = NoCall
    /\ UNCHANGED <<rootName, dirs, files, unreadable, stateFile, progInfoFile,
                   cwd, otherFiles, fresh>>

----------------------------------------------------------------------------
(* The environment: edits of the tree between two calls *)

Edited ==
    /\ res' = NoCall
    /\ prev' = NoCall
    /\ fresh' = FALSE

Mkdir(d) ==
    /\ d \notin dirs
    /\ dirs' = dirs \cup {d}
    /\ Edited
    /\ UNCHANGED <<rootName, files, unreadable, stateFile, progInfoFile, cwd, otherFiles>>

Rmdir(d) ==
    /\ d \in dirs
    /\ \A p \in DOMAIN files : Parent(p) # d
    /\ dirs' = dirs \ {d}
    /\ unreadable' = unreadable \ {d}
    /\ Edited
    /\ UNCHANGED <<rootName, files, stateFile, progInfoFile, cwd, otherFiles>>

\* create the file, or replace its bytes (by the same bytes too)
WriteFile(p, bytes) ==
    /\ Exists(Parent(p))
    /\ files' = Put(files, p, bytes)
    /\ Edited
    /\ UNCHANGED <<rootName, dirs, unreadable, stateFile, progInfoFile, cwd, otherFiles>>

RemoveFile(p) ==
    /\ p \in DOMAIN files
    /\ files' = [q \in DOMAIN files \ {p} |-> files[q]]
    /\ unreadable' = unreadable \ {p}
    /\ Edited
    /\ UNCHANGED <<rootName, dirs, stateFile, progInfoFile, cwd, otherFiles>>

\* the paths whose permissions the model changes
Chmodable == { <<"lib">>, <<"main.py">>, <<"requirements.txt">> }

Chmod(p) ==
    /\ Exists(p)
    /\ unreadable' = IF p \in unreadable THEN unreadable \ {p} ELSE unreadable \cup {p}
    /\ Edited
    /\ UNCHANGED <<rootName, dirs, files, stateFile, progInfoFile, cwd, otherFiles>>

\* the state file is overwritten by bytes that do not parse
TruncateState ==
    /\ stateFile.exists
    /\ stateFile.valid
    /\ stateFile' = [exists |-> TRUE, valid |-> FALSE, entries |-> <<>>]
    /\ Edited
    /\ UNCHANGED <<rootName, dirs, files, unreadable, progInfoFile, cwd, otherFiles>>

----------------------------------------------------------------------------
(* The specification of change detection: every tree of source files *)

RootNames == {"proj", "."}

Init ==
    /\ rootName \in RootNames
    /\ dirs = {}
    /\ files = EmptyMap
    /\ unreadable = {}
    /\ stateFile = NoFile
    /\ progInfoFile = NoProgInfo
    /\ cwd = "root"
    /\ otherFiles = EmptyMap
    /\ res = NoCall
    /\ prev = NoCall
    /\ fresh = FALSE

\* the files this specification edits
WatchedFiles == { <<".env">>, <<".venv", "main.py">>, <<"lib", "index.js">>, <<"main.py">> }

Next ==
    \/ \E d \in OptionalDirs : Mkdir(d)
    \/ \E d \in OptionalDirs : Rmdir(d)
    \/ \E p \in WatchedFiles, b \in SourceBytes : WriteFile(p, b)
    \/ \E p \in WatchedFiles : RemoveFile(p)
    \/ \E p \in Chmodable \ ManifestFiles : Chmod(p)
    \/ TruncateState
    \/ storeState
    \/ GetChanges

Spec == Init /\ [][Next]_vars

----------------------------------------------------------------------------
(* The specification of the dependency diff: entrypoint files come and go, *)
(* the manifests of the root are rewritten, program info is stored         *)

\* longest stored dependency list
MaxDeps == 1

EntryFiles == { <<"index.js">>, <<"lib", "index.js">>, <<"main.py">> }
RequirementsTexts == SeqsUpTo(Chars, MaxLen)
StoredIds == { <<"a">>, <<"b">> }
DepLists == SeqsUpTo(StoredIds, MaxDeps) \cup { <<FlaskId>> }
Runtimes == {"", Python, Node, "ruby"}
ProgInfos == [Runtime : Runtimes, Deps : DepLists]

\* the program info file is overwritten by bytes that do not parse
TruncateProgInfo ==
    /\ progInfoFile.exists
    /\ progInfoFile.valid
    /\ progInfoFile' = [exists |-> TRUE, valid |-> FALSE, info |-> NoProgInfo.info]
    /\ Edited
    /\ UNCHANGED <<rootName, dirs, files, unreadable, stateFile, cwd, otherFiles>>

InitDeps ==
    /\ rootName = "proj"
    /\ dirs = { <<"lib">> }
    /\ files = EmptyMap
    /\ unreadable = {}
    /\ stateFile = NoFile
    /\ progInfoFile = NoProgInfo
    /\ cwd = "root"
    /\ otherFiles = EmptyMap
    /\ res = NoCall
    /\ prev = NoCall
    /\ fresh = FALSE

NextDeps ==
    \/ \E p \in EntryFiles : WriteFile(p, <<"x">>)
    \/ \E b \in RequirementsTexts : WriteFile(<<"requirements.txt">>, b)
    \/ \E b \in PkgDocs : WriteFile(<<"package.json">>, b)
    \/ \E p \in EntryFiles \cup ManifestFiles : RemoveFile(p)
    \/ Chmod(<<"requirements.txt">>)
    \/ TruncateProgInfo
    \/ \E p \in ProgInfos : StoreProgInfo(p)
    \/ GetRuntime
    \/ GetDepChanges

SpecDeps == InitDeps /\ [][NextDeps]_vars

----------------------------------------------------------------------------
(* The whole Manager on a small tree: one source file, one manifest *)

InitAll ==
    /\ rootName = "proj"
    /\ dirs = {}
    /\ files = EmptyMap
    /\ unreadable = {}
    /\ stateFile = NoFile
    /\ progInfoFile = NoProgInfo
    /\ cwd = "root"
    /\ otherFiles = EmptyMap
    /\ res = NoCall
    /\ prev = NoCall
    /\ fresh = FALSE

NextAll ==
    \/ \E b \in SourceBytes : WriteFile(<<"main.py">>, b)
    \/ WriteFile(<<"requirements.txt">>, <<"a">>)
    \/ \E p \in {<<"main.py">>, <<"requirements.txt">>} : RemoveFile(p)
    \/ \E p \in {<<"main.py">>, ProgInfoPath} : Chmod(p)
    \/ TruncateState
    \/ TruncateProgInfo
    \/ \E deps \in SeqsUpTo(StoredIds, 1) : StoreProgInfo([Runtime |-> Python, Deps |-> deps])
    \/ storeState
    \/ GetChanges
    \/ GetRuntime
    \/ GetDepChanges

SpecAll == InitAll /\ [][NextAll]_vars

----------------------------------------------------------------------------
(* The claims about change detection, under Spec *)

\* The base name of the path, or of a directory it lies under, begins with
\* ".".  The root is such a directory: a root named "." or ".proj" hides
\* every file below it.
Hidden(p) == rootName \in DotNames \/ \E i \in 1..Len(p) : p[i] \in DotNames
\* the non-hidden regular files of the tree
CurrentFiles == { p \in DOMAIN files : ~Hidden(p) }
\* the snapshot the state file holds
StoredState == stateMapFromBytes(stateFile).val
SnapshotPresent == stateFile.exists /\ stateFile.valid
\* the last call was GetChanges and it compared the tree with a snapshot
Compared == res.op = "GetChanges" /\ ~res.firstRun /\ SnapshotPresent

\* C1: when a directory read, a file read or a checksum fails during the
\* walk of the comparison branch, GetChanges returns an error and no
\* StateChanges.
C1_WalkFailureIsReturned ==
    (Compared /\ res.walkErr # NoErr) => (res.err # NoErr /\ res.nilval)

\* C2: a successful GetChanges against a snapshot S puts every path of
\* keys(S) and of the current files in exactly one class: Changes (a current
\* file that S lacks or whose checksum differs, with its bytes), Deletions (a
\* key of S that is no current file), or neither (same checksum).
C2_Partition ==
    (Compared /\ res.err = NoErr) =>
        /\ DOMAIN res.Changes =
              { p \in CurrentFiles : p \notin DOMAIN StoredState
                                     \/ StoredState[p] # Sha256Hex(files[p]) }
        /\ \A p \in DOMAIN res.Changes : res.Changes[p] = files[p]
        /\ res.Deletions = DOMAIN StoredState \ CurrentFiles
        /\ DOMAIN res.Changes \cap res.Deletions = {}

\* C3: GetChanges after a successful storeState, with no edit of the tree in
\* between, returns empty Changes and empty Deletions.
C3_NothingChangedAfterStore ==
    (fresh /\ res.op = "GetChanges") =>
        /\ res.err = NoErr
        /\ DOMAIN res.Changes = {}
        /\ res.Deletions = {}

\* C5: a file whose name, or the name of a directory above it, begins with
\* "." is never a key of the snapshot storeState wrote and never a key of the
\* Changes that readAll or GetChanges returned.
C5_HiddenNeverTracked ==
    /\ SnapshotPresent => \A p \in DOMAIN StoredState : ~Hidden(p)
    /\ res.op = "GetChanges" => \A p \in DOMAIN res.Changes : ~Hidden(p)

\* a hidden file and a file of a hidden directory exist, a non-empty snapshot
\* was stored, and GetChanges has just reported changes
C5_Witness ==
    /\ <<".env">> \in DOMAIN files
    /\ <<".venv", "main.py">> \in DOMAIN files
    /\ SnapshotPresent
    /\ DOMAIN StoredState # {}
    /\ res.op = "GetChanges"
    /\ DOMAIN res.Changes # {}

\* C6: with no state file, a GetChanges that succeeds returns every current
\* file with its bytes in Changes, and empty Deletions.
C6_FirstRunReturnsEveryFile ==
    (res.op = "GetChanges" /\ res.firstRun /\ res.err = NoErr) =>
        /\ res.Changes = [p \in CurrentFiles |-> files[p]]
        /\ res.Deletions = {}

\* the first-run branch has returned files of a tree that also holds a
\* hidden file
C6_Witness ==
    /\ res.op = "GetChanges"
    /\ res.firstRun
    /\ res.err = NoErr
    /\ CurrentFiles # {}
    /\ CurrentFiles # DOMAIN files

----------------------------------------------------------------------------
(* The claim about the persisted files, under SpecAll *)

\* C4: a step that is a GetChanges call (first run or comparison) or a
\* GetDepChanges call, successful or failed, leaves the state file and the
\* program info file as they were.
C4_CallsLeavePersistedFiles ==
    [][res'.op \in {"GetChanges", "GetDepChanges"} =>
          (stateFile' = stateFile /\ progInfoFile' = progInfoFile)]_vars

\* GetChanges has compared a tree that differs from the stored snapshot,
\* with both persisted files present
C4_Witness ==
    /\ Compared
    /\ progInfoFile.exists
    /\ DOMAIN res.Changes # {}

----------------------------------------------------------------------------
(* The claims about the dependency diff and the runtime, under SpecDeps *)

StoredInfo == progInfoFile.info
InfoPresent == progInfoFile.exists /\ progInfoFile.valid
\* the entrypoint files of the tree and the runtimes they stand for
EntrypointsInTree == { p \in DOMAIN files : Base(p) \in DOMAIN entryPoints }
RuntimesInTree == { entryPoints[Base(p)] : p \in EntrypointsInTree }

\* C7: with a non-empty stored dependency list, when the identifiers read
\* from the manifest are, as a set, the stored identifiers, GetDepChanges
\* returns empty Added and empty Removed.
C7_SameSetNoChanges ==
    ( /\ res.op = "GetDepChanges"
      /\ InfoPresent
      /\ Len(StoredInfo.Deps) > 0
      /\ readDeps(StoredInfo.Runtime).err = NoErr
      /\ Range(readDeps(StoredInfo.Runtime).val) = Range(StoredInfo.Deps) )
    => (res.err = NoErr /\ Len(res.Added) = 0 /\ res.Removed = {})

\* C8: for the node runtime, with package.json declaring flask 1.0 and
\* requests 2.0 and the stored list [flask@1.0], GetDepChanges returns
\* Added = [requests@2.0] and Removed = [].
C8_NodeManifestIsParsed ==
    ( /\ res.op = "GetDepChanges"
      /\ InfoPresent
      /\ StoredInfo = [Runtime |-> Node, Deps |-> <<FlaskId>>]
      /\ readManifest("package.json") = Ok(PkgDepsTwo) )
    => (res.err = NoErr /\ res.Added = <<RequestsId>> /\ res.Removed = {})

\* C9: with no recorded runtime (no program info file, or a stored ProgInfo
\* whose Runtime is empty) and no entrypoint file in the tree, GetDepChanges
\* returns an error.
C9_NoRuntimeIsAnError ==
    ( /\ res.op = "GetDepChanges"
      /\ (~progInfoFile.exists \/ (InfoPresent /\ StoredInfo.Runtime = ""))
      /\ EntrypointsInTree = {} )
    => (res.err # NoErr /\ res.nilval)

\* C10: GetRuntime fails with the conflict error when the entrypoint files
\* of the tree stand for more than one runtime, fails when there is none,
\* and returns the runtime when they all stand for the same one.
C10_RuntimeOfTheTree ==
    res.op = "GetRuntime" =>
        IF Cardinality(RuntimesInTree) > 1 THEN res.err = Conflict
        ELSE IF RuntimesInTree = {} THEN res.err # NoErr
        ELSE res.err = NoErr /\ res.runtime \in RuntimesInTree

\* C11: GetDepChanges, handing readDeps a stored runtime that has no parser
\* (any name other than python and node, the empty name too), returns an
\* error and no DepChanges, never an empty list as a success.
C11_UnsupportedRuntimeIsAnError ==
    ( /\ res.op = "GetDepChanges"
      /\ InfoPresent
      /\ StoredInfo.Runtime \notin {Python, Node}
      /\ (StoredInfo.Runtime # "" \/ Len(StoredInfo.Deps) > 0) )
    => (res.err # NoErr /\ res.nilval)

----------------------------------------------------------------------------
(* The claim about a program info file that is there but of no use, under  *)
(* SpecAll                                                                 *)

\* C12: when the program info file exists but cannot be read or does not
\* parse, GetDepChanges returns that error and no DepChanges; it takes the
\* first-run branch only when the file is absent.
C12_ProgInfoErrorIsReturned ==
    ( /\ res.op = "GetDepChanges"
      /\ progInfoFile.exists
      /\ (ProgInfoPath \in unreadable \/ ~progInfoFile.valid) )
    => (res.err \in {EACCES, CorruptInfo} /\ res.nilval)

----------------------------------------------------------------------------
(* The claims about the manifest, under SpecDeps *)

\* the supported runtime whose manifest GetDepChanges reads: the stored
\* runtime or, with no program info file or an empty stored ProgInfo, the
\* runtime of the only entrypoint file
ManifestRuntimes ==
    IF InfoPresent /\ StoredInfo.Runtime # ""
    THEN {StoredInfo.Runtime} \cap {Python, Node}
    ELSE IF /\ ~progInfoFile.exists \/ (InfoPresent /\ Len(StoredInfo.Deps) = 0)
            /\ Cardinality(EntrypointsInTree) = 1
    THEN RuntimesInTree
    ELSE {}

\* C13: for a supported runtime whose manifest does not exist, GetDepChanges
\* succeeds with empty Added and with Removed the set of the stored
\* identifiers (empty when nothing is stored); any other error of reading the
\* manifest is returned as the error of the call.
C13_MissingManifestIsEmpty ==
    res.op = "GetDepChanges" =>
        \A rt \in ManifestRuntimes :
            LET e == readManifest(depFiles(rt)).err
            IN  /\ e = ENOENT =>
                      /\ res.err = NoErr
                      /\ ~res.nilval
                      /\ res.Added = <<>>
                      /\ res.Removed = IF InfoPresent THEN Range(StoredInfo.Deps) ELSE {}
                /\ e \notin {NoErr, ENOENT} => (res.err = e /\ res.nilval)

\* python is stored with a dependency, requirements.txt is gone, and the
\* call has reported the stored dependency as removed
C13_Witness ==
    /\ res.op = "GetDepChanges"
    /\ InfoPresent
    /\ StoredInfo.Runtime = Python
    /\ Len(StoredInfo.Deps) > 0
    /\ readManifest("requirements.txt").err = ENOENT
    /\ res.err = NoErr
    /\ res.Removed # {}

----------------------------------------------------------------------------
(* The claims about repeated calls, deletions and the snapshot, under Spec *)

\* C14: of two GetChanges calls in succession, with no edit of the tree and
\* no storeState in between, the second returns the Changes, the set of
\* Deletions and the error the first returned.
C14_RepeatedCallAgrees ==
    (res.op = "GetChanges" /\ prev.op = "GetChanges") =>
        /\ res.err = prev.err
        /\ res.Changes = prev.Changes
        /\ res.Deletions = prev.Deletions

\* the second of two calls in succession has compared the tree with a
\* snapshot and reported a change and a deletion
C14_Witness ==
    /\ Compared
    /\ prev.op = "GetChanges"
    /\ res.err = NoErr
    /\ DOMAIN res.Changes # {}
    /\ res.Deletions # {}

\* C15: in every StateChanges that GetChanges returns without error, each
\* path of Deletions is a key of the stored snapshot and is not a non-hidden
\* regular file of the current tree.
C15_DeletionsAreGone ==
    (Compared /\ res.err = NoErr) =>
        /\ res.Deletions \subseteq DOMAIN StoredState
        /\ res.Deletions \cap CurrentFiles = {}

\* the regular files whose own name and whose directories below the root
\* are not hidden
FilesBelowRoot ==
    { p \in DOMAIN files : \A i \in 1..Len(p) : p[i] \notin DotNames }

\* C17: after a successful storeState, on any root, the snapshot read back by
\* getStoredState has exactly one entry for each regular file whose name and
\* whose directories below the root are not hidden, the SHA-256 hex of the
\* file's bytes, and no other entry.
C17_SnapshotIsTheTree ==
    (fresh /\ res.op = "storeState" /\ res.err = NoErr) =>
        getStoredState = Ok([p \in FilesBelowRoot |-> Sha256Hex(files[p])])

\* a directory or a file that the walk of storeState has to read cannot be
\* read
ReadFails == \E p \in unreadable : ~Hidden(p)

\* C18: a storeState step replaces the snapshot wholesale and only on
\* success: when a read of the tree walk or a checksum fails it returns the
\* error, when it returns an error the state file is as it was, and after a
\* success every entry of the snapshot is a file on disk.
C18_ReplacedOnlyOnSuccess ==
    [][res'.op = "storeState" =>
          /\ ReadFails => res'.err # NoErr
          /\ res'.err # NoErr => stateFile' = stateFile
          /\ res'.err = NoErr =>
                (SnapshotPresent' /\ DOMAIN StoredState' \subseteq DOMAIN files)]_vars

----------------------------------------------------------------------------
(* The claims about the stored dependency list, under SpecDeps *)

\* C16: when a ProgInfo is stored with an empty Runtime, whatever its
\* dependency list (empty or not), GetDepChanges takes the runtime of the
\* tree's entrypoint file and returns every identifier of that runtime's
\* manifest as Added, with empty Removed.
C16_EmptyRuntimeIsResolved ==
    ( /\ res.op = "GetDepChanges"
      /\ InfoPresent
      /\ StoredInfo.Runtime = ""
      /\ Cardinality(EntrypointsInTree) = 1 )
    => \A rt \in RuntimesInTree :
           readDeps(rt).err = NoErr =>
               /\ res.err = NoErr
               /\ res.Added = readDeps(rt).val
               /\ res.Removed = {}

\* C19: in every DepChanges that GetDepChanges returns when a non-empty
\* dependency list is stored, Added and Removed are disjoint, Removed is the
\* set of the stored identifiers that the manifest lacks, and every element
\* of Added is an identifier of the manifest that is not in the stored list.
C19_DiffIsASetDifference ==
    ( /\ res.op = "GetDepChanges"
      /\ InfoPresent
      /\ Len(StoredInfo.Deps) > 0
      /\ res.err = NoErr )
    => LET current == Range(readDeps(StoredInfo.Runtime).val)
           stored == Range(StoredInfo.Deps)
       IN  /\ Range(res.Added) \cap res.Removed = {}
           /\ res.Removed = stored \ current
           /\ Range(res.Added) \subseteq current \ stored

----------------------------------------------------------------------------
(* The specification of the working directory: the process changes its     *)
(* directory and files outside the root are written, between calls on one  *)
(* root                                                                    *)

\* the directories the process works in: the root, and one outside it
WorkingDirs == {"root", "other"}
ManifestTexts == { <<"a">>, <<"b">> }

\* os.Chdir between two calls: the root and its files stay as they are, and
\* so does the result of the last call
Chdir(d) ==
    /\ cwd # d
    /\ cwd' = d
    /\ UNCHANGED <<rootName, dirs, files, unreadable, stateFile, progInfoFile,
                   otherFiles, res, prev, fresh>>

\* a file of the directory outside the root is written
WriteOther(name, bytes) ==
    /\ otherFiles' = Put(otherFiles, name, bytes)
    /\ UNCHANGED <<rootName, dirs, files, unreadable, stateFile, progInfoFile,
                   cwd, res, prev, fresh>>

RemoveOther(name) ==
    /\ name \in DOMAIN otherFiles
    /\ otherFiles' = [n \in DOMAIN otherFiles \ {name} |-> otherFiles[n]]
    /\ UNCHANGED <<rootName, dirs, files, unreadable, stateFile, progInfoFile,
                   cwd, res, prev, fresh>>

InitCwd ==
    /\ rootName = "proj"
    /\ dirs = {}
    /\ files = EmptyMap
    /\ unreadable = {}
    /\ stateFile = NoFile
    /\ progInfoFile = NoProgInfo
    /\ cwd = "root"
    /\ otherFiles = EmptyMap
    /\ res = NoCall
    /\ prev = NoCall
    /\ fresh = FALSE

NextCwd ==
    \/ WriteFile(<<"main.py">>, <<"x">>)
    \/ \E b \in ManifestTexts : WriteFile(<<"requirements.txt">>, b)
    \/ \E p \in {<<"main.py">>, <<"requirements.txt">>} : RemoveFile(p)
    \/ \E d \in WorkingDirs : Chdir(d)
    \/ \E b \in ManifestTexts : WriteOther("requirements.txt", b)
    \/ RemoveOther("requirements.txt")
    \/ \E deps \in SeqsUpTo(StoredIds, 1) : StoreProgInfo([Runtime |-> Python, Deps |-> deps])
    \/ GetDepChanges

SpecCwd == InitCwd /\ [][NextCwd]_vars

\* C20: the root alone decides the result of GetDepChanges: of two calls on
\* the same root, with nothing in between but changes of the working
\* directory and of files outside the root, the second returns what the
\* first returned.
C20_RootAloneDecides ==
    [][(res.op = "GetDepChanges" /\ res'.op = "GetDepChanges") =>
          /\ res'.err = res.err
          /\ res'.nilval = res.nilval
          /\ res'.Added = res.Added
          /\ res'.Removed = res.Removed]_vars

====
